---- MODULE Spec2Model ----
(***************************************************************************)
(* Model of universal_data_analyzer.py: the discovery / read / analyse /   *)
(* visualise / render pipeline of UniversalDataAnalyzer, with the raster   *)
(* no-data heuristic, the raster analyser and the chart generators.        *)
(*                                                                         *)
(* Numbers.  A numpy cell or a Python float is a record                    *)
(*     [k |-> "fin", hi |-> h, lo |-> l]   the finite value                *)
(*                                          (h * Unit + l) / 100,          *)
(*                                          0 <= l < Unit = 10^6           *)
(*     [k |-> "nan"], [k |-> "pinf"], [k |-> "ninf"]   the IEEE specials   *)
(* (hi and lo are 0 in the specials).  Values are kept in hundredths       *)
(* because np.percentile interpolates at multiples of 1/100, and in two    *)
(* limbs because 1e9 and 1e10 in hundredths do not fit 32-bit integers.   *)
(* Every result is normalised, so equal values are equal records and the   *)
(* numeric order is the lexicographic order on (hi, lo).  Arithmetic is    *)
(* exact: floating-point rounding is not modelled.                         *)
(***************************************************************************)
EXTENDS Integers, Sequences, FiniteSets, TLC

None == [k |-> "none", hi |-> 0, lo |-> 0]
NaN == [k |-> "nan", hi |-> 0, lo |-> 0]
PInf == [k |-> "pinf", hi |-> 0, lo |-> 0]
NInf == [k |-> "ninf", hi |-> 0, lo |-> 0]
Fin(hi, lo) == [k |-> "fin", hi |-> hi, lo |-> lo]
Unit == 100 * 10000
Norm(hi, lo) == Fin(hi + lo \div Unit, lo % Unit)
\* the integer v as a cell value
Num(v) == Norm(0, 100 * v)
\* the finite values s * 1e9 and s * 1e10
E9(s) == Fin(s * 100000, 0)
E10(s) == Fin(s * 1000000, 0)

\* np.isfinite
IsFinite(x) == x.k = "fin"

\* position of a value on the extended real line (NaN has none)
Rank(x) == CASE x.k = "ninf" -> 0 [] x.k = "fin" -> 1 [] x.k = "pinf" -> 2 [] OTHER -> 3

\* x < y, IEEE: false as soon as one side is NaN
Lt(x, y) ==
    /\ x.k # "nan" /\ y.k # "nan"
    /\ \/ Rank(x) < Rank(y)
       \/ /\ x.k = "fin" /\ y.k = "fin"
          /\ \/ x.hi < y.hi
             \/ x.hi = y.hi /\ x.lo < y.lo

\* x == y, IEEE: NaN equals nothing, itself included
Eq(x, y) == x.k # "nan" /\ y.k # "nan" /\ x = y

\* x != y, IEEE: the negation of ==, so true as soon as one side is NaN
Ne(x, y) == ~Eq(x, y)

Sub(x, y) == Norm(x.hi - y.hi, x.lo - y.lo)
Times(c, x) == Norm(c * x.hi, c * x.lo)

(***************************************************************************)
(* Arrays.  A 2-D numpy array is [h |-> rows, w |-> columns, rows |-> a    *)
(* sequence of h sequences of w numbers]; a 1-D array is a sequence.       *)
(***************************************************************************)
RECURSIVE Concat(_)
Concat(ss) == IF ss = <<>> THEN <<>> ELSE Head(ss) \o Concat(Tail(ss))

\* ndarray.flatten(): row-major
Flatten(arr) == Concat(arr.rows)

\* ndarray.size
Size(arr) == arr.h * arr.w

\* boolean-mask selection a[mask] on a flat sequence
Select(s, P(_)) == SelectSeq(s, P)

\* np.sum of a boolean mask
Count(s, P(_)) == Len(SelectSeq(s, P))

Range(s) == {s[i] : i \in 1..Len(s)}

\* np.min / np.max of a non-empty flat sequence: NaN propagates
NpMin(s) ==
    IF NaN \in Range(s) THEN NaN
    ELSE CHOOSE x \in Range(s) : \A y \in Range(s) : ~Lt(y, x)

NpMax(s) ==
    IF NaN \in Range(s) THEN NaN
    ELSE CHOOSE x \in Range(s) : \A y \in Range(s) : ~Lt(x, y)

PercentLow == 1
PercentHigh == 99
OutlierFactor == 100
ThresholdFactor == 10

\* np.percentile(a, p), default linear method, on a non-empty sequence of
\* finite values: the virtual index (n-1)*p/100 of the sorted data,
\* interpolated between its two neighbours, lo + (up - lo) * f / 100
Percentile(a, p) ==
    LET sorted == SortSeq(a, Lt)
        pos == (Len(a) - 1) * p
        i == pos \div 100
        f == pos % 100
        lo == sorted[i + 1]
        up == sorted[IF i + 2 <= Len(a) THEN i + 2 ELSE i + 1]
        d == Sub(up, lo)
        hf == d.hi * f
    IN  Norm(lo.hi + hf \div 100,
             lo.lo + (hf % 100) * (Unit \div 100) + (d.lo * f) \div 100)

\* q1 - c * (q99 - q1)
Below(q1, q99, c) == Sub(q1, Times(c, Sub(q99, q1)))

\* the detection with the outlier test's factor reused for the threshold
DetectNodataOutlierFactorTwice(arr, declared) ==
    IF declared # None THEN declared
    ELSE LET data_flat == Select(Flatten(arr), IsFinite)
         IN  IF Len(data_flat) > 0
             THEN LET q1 == Percentile(data_flat, PercentLow)
                      q99 == Percentile(data_flat, PercentHigh)
                  IN  IF Lt(NpMin(data_flat), Below(q1, q99, OutlierFactor))
                      THEN Below(q1, q99, OutlierFactor)
                      ELSE None
             ELSE None

\* the no-data detection of _read_tif_file: the value stored as
\* metadata['nodata'] for band data `arr` whose file declares `declared`
DetectNodata(arr, declared) ==
    IF declared # None THEN declared
    ELSE LET data_flat == Select(Flatten(arr), IsFinite)
         IN  IF Len(data_flat) > 0
             THEN LET q1 == Percentile(data_flat, PercentLow)
                      q99 == Percentile(data_flat, PercentHigh)
                  IN  IF Lt(NpMin(data_flat), Below(q1, q99, OutlierFactor))
                      THEN Below(q1, q99, ThresholdFactor)
                      ELSE None
             ELSE None

(***************************************************************************)
(* What a file holds.  A raster file: [kind |-> "raster", band |-> the     *)
(* first band as a 2-D array, nodata |-> src.nodata or None].  A table     *)
(* file: [kind |-> "table", cols |-> the columns' dtype classes in column  *)
(* order ("num" np.number, "obj" object/category, "other" e.g. bool or     *)
(* datetime), nrows, missing and dups |-> the counts isnull().sum().sum()  *)
(* and duplicated().sum() give, unhashable |-> an object column holds      *)
(* lists or dicts (nested JSON), on which DataFrame.duplicated raises      *)
(* TypeError].  A file no reader can parse: [kind |-> "corrupt"].          *)
(* Both kinds carry faults |-> the titles of the charts whose construction *)
(* by plotly raises on this content; the except clauses of the chart       *)
(* blocks are what such an exception reaches.                              *)
(***************************************************************************)
NoData == [kind |-> "none"]

\* _read_tif_file: the band and its metadata, the no-data value detected
ReadTifFile(content) ==
    IF content.kind # "raster" THEN NoData
    ELSE [kind |-> "raster",
          data |-> content.band,
          faults |-> content.faults,
          metadata |-> [width |-> content.band.w,
                        height |-> content.band.h,
                        nodata |-> DetectNodata(content.band, content.nodata)]]

\* read_data_file: the reader of the file's type; any exception gives None
ReadDataFile(content, file_type) ==
    IF file_type = "tif" THEN ReadTifFile(content)
    ELSE IF content.kind = "table" THEN content ELSE NoData

(***************************************************************************)
(* _analyze_tif_data.  valid_data is the 1-D selection of the cells that   *)
(* differ from the no-data value when there is one, and the 2-D array      *)
(* itself when there is none, so len(valid_data) is then its row count.    *)
(* Of numeric_summary the model keeps min and max (mean, median and std    *)
(* are floating-point statistics no property here reads).                  *)
(***************************************************************************)
\* the mask raster_data != metadata['nodata']
AnalyzerMask(x, nodata) == Ne(x, nodata)

\* the elements of valid_data, in row-major order
ValidData(data) ==
    IF data.metadata.nodata # None
    THEN Select(Flatten(data.data), LAMBDA x : AnalyzerMask(x, data.metadata.nodata))
    ELSE Flatten(data.data)

\* len(valid_data)

LenValidData(data) ==
    IF data.metadata.nodata # None THEN Len(ValidData(data)) ELSE data.data.h

\* np.min of a zero-size array raises ValueError
AnalyzeTifRaises(data) == LenValidData(data) > 0 /\ ValidData(data) = <<>>

TifNumericSummary(data) ==
    [min |-> NpMin(ValidData(data)), max |-> NpMax(ValidData(data))]

TifInsights(data) ==
    (IF data.metadata.nodata # None
     THEN <<[text |-> "no-data pixels",
             n |-> Count(Flatten(data.data), LAMBDA x : Eq(x, data.metadata.nodata))]>>
     ELSE <<[text |-> "spatial raster data"]>>)
    \o (IF LenValidData(data) > 0
        THEN <<[text |-> "data range",
                min |-> TifNumericSummary(data).min,
                max |-> TifNumericSummary(data).max]>>
        ELSE <<>>)

AnalyzeTifData(data) ==
    LET base == [summary |-> [dimensions |-> <<data.metadata.width, data.metadata.height>>,
                              valid_pixels |-> LenValidData(data),
                              total_pixels |-> Size(data.data)],
                 insights |-> TifInsights(data)]
    IN  IF LenValidData(data) > 0
        THEN [numeric_summary |-> TifNumericSummary(data)] @@ base
        ELSE base

(***************************************************************************)
(* _analyze_tabular_data                                                   *)
(***************************************************************************)
ColsOf(data, kind) == SelectSeq(data.cols, LAMBDA c : c.dtype = kind)

AnalyzeTabularRaises(data) == data.unhashable

AnalyzeTabularData(data) ==
    LET numeric_cols == ColsOf(data, "num")
        categorical_cols == ColsOf(data, "obj")
        insights ==
            (IF data.missing > 0 THEN <<[text |-> "missing values", n |-> data.missing]>> ELSE <<>>)
            \o (IF data.dups > 0 THEN <<[text |-> "duplicate rows", n |-> data.dups]>> ELSE <<>>)
            \o (IF Len(numeric_cols) > 0
                THEN <<[text |-> "numeric columns", n |-> Len(numeric_cols)]>> ELSE <<>>)
            \o (IF Len(categorical_cols) > 0
                THEN <<[text |-> "categorical columns", n |-> Len(categorical_cols)]>> ELSE <<>>)
        base == [summary |-> [shape |-> <<data.nrows, Len(data.cols)>>,
                              columns |-> [i \in 1..Len(data.cols) |-> data.cols[i].name],
                              missing_values |-> data.missing,
                              duplicates |-> data.dups],
                 insights |-> insights]
        num == IF Len(numeric_cols) > 0
               THEN [numeric_summary |-> [i \in 1..Len(numeric_cols) |-> numeric_cols[i].name]]
               ELSE <<>>
        cat == IF Len(categorical_cols) > 0
               THEN [categorical_summary |-> [i \in 1..Len(categorical_cols) |-> categorical_cols[i].name]]
               ELSE <<>>
    IN  num @@ cat @@ base

\* analyze_data: the fresh record, updated with the analyser's keys
AnalyzeRaises(data, file_type) ==
    IF file_type = "tif" THEN AnalyzeTifRaises(data) ELSE AnalyzeTabularRaises(data)

AnalyzeData(data, file_name, file_type) ==
    (IF file_type = "tif" THEN AnalyzeTifData(data) ELSE AnalyzeTabularData(data))
    @@ [file_name |-> file_name,
        file_type |-> file_type,
        summary |-> <<>>,
        visualizations |-> <<>>,
        insights |-> <<>>]

(***************************************************************************)
(* _create_tif_visualizations                                              *)
(***************************************************************************)
Step == 4
HistSampleCap == 100000

\* (raster_data > -1e10) & (raster_data < 1e10)
InRange(x) == Lt(E10(-1), x) /\ Lt(x, E10(1))

\* the heatmap's valid_mask
HeatmapMask(x, nodata_value) ==
    IF nodata_value # None
    THEN Ne(x, nodata_value) /\ InRange(x)
    ELSE InRange(x) /\ IsFinite(x)

\* the statistics mask without the comparison with the no-data value
StatsMaskIgnoringNodata(x, nodata_value) == InRange(x) /\ IsFinite(x)

\* the statistics chart's valid_mask
StatsMask(x, nodata_value) ==
    IF nodata_value # None
    THEN Ne(x, nodata_value) /\ InRange(x) /\ IsFinite(x)
    ELSE InRange(x) /\ IsFinite(x)

\* the indices start, start + step, ... of a[::step] over 1..n
Strided(n, step) == {i \in 1..n : (i - 1) % step = 0}

\* valid_sample: the finite cells of clean_data[::step, ::step]
ValidSample(data) ==
    LET arr == data.data
    IN  {<<r, c>> \in Strided(arr.h, Step) \X Strided(arr.w, Step) :
            /\ HeatmapMask(arr.rows[r][c], data.metadata.nodata)
            /\ IsFinite(arr.rows[r][c])}

\* valid_data of the statistics chart, reused by the histogram
StatsValidData(data) ==
    Select(Flatten(data.data), LAMBDA x : StatsMask(x, data.metadata.nodata))

\* the chart of one try block: nothing when its construction raises
Built(data, chart) == IF chart.title \in data.faults THEN <<>> ELSE <<chart>>

\* Each chart has its own try block.  valid_data is assigned before the
\* statistics figure is constructed, so it is bound when the histogram
\* block reads it even if that construction raised.
CreateTifVisualizations(data) ==
    LET valid_data == StatsValidData(data)
    IN  (IF ValidSample(data) # {}
         THEN Built(data, [type |-> "heatmap", title |-> <<"Spatial Vulnerability Heatmap">>])
         ELSE <<>>)
        \o (IF Len(valid_data) > 0
            THEN Built(data, [type |-> "statistics", title |-> <<"Vulnerability Data Statistics">>])
            ELSE <<>>)
        \o (IF Len(valid_data) > 0
            THEN Built(data, [type |-> "histogram",
                              title |-> <<"Vulnerability Score Distribution">>,
                              points |-> IF Len(valid_data) > HistSampleCap
                                         THEN HistSampleCap ELSE Len(valid_data)])
            ELSE <<>>)

(***************************************************************************)
(* _create_tabular_visualizations                                          *)
(***************************************************************************)
HistogramCap == 3
BarCap == 2

\* s[:n]
Prefix(s, n) == SubSeq(s, 1, IF Len(s) < n THEN Len(s) ELSE n)

\* the charts of the histogram loop, the correlation block and the bar loop
HistogramCharts(data) ==
    LET hcols == Prefix(ColsOf(data, "num"), HistogramCap)
    IN  [i \in 1..Len(hcols) |->
            [type |-> "histogram", title |-> <<"Distribution of", hcols[i].name>>]]

CorrelationChart == [type |-> "correlation", title |-> <<"Correlation Matrix">>]

BarCharts(data) ==
    LET bcols == Prefix(ColsOf(data, "obj"), BarCap)
    IN  [i \in 1..Len(bcols) |->
            [type |-> "bar", title |-> <<"Top Values in", bcols[i].name>>]]

\* a loop whose body is one try block per chart
EachBuilt(data, charts) == Concat([i \in 1..Len(charts) |-> Built(data, charts[i])])

\* a try block around the whole loop: the first failure ends the loop
BuiltUntilFailure(data, charts) ==
    LET failed == {i \in 1..Len(charts) : charts[i].title \in data.faults}
    IN  IF failed = {} THEN charts
        ELSE SubSeq(charts, 1, (CHOOSE i \in failed : \A k \in failed : i <= k) - 1)

\* the histogram and bar loops wrapped in one try block each
CreateTabularVisualizationsTryAroundLoop(data) ==
    BuiltUntilFailure(data, HistogramCharts(data))
    \o (IF Len(ColsOf(data, "num")) > 1 THEN Built(data, CorrelationChart) ELSE <<>>)
    \o BuiltUntilFailure(data, BarCharts(data))

\* the correlation matrix drawn for a single numeric column too
CreateTabularVisualizationsCorrelationOfOne(data) ==
    EachBuilt(data, HistogramCharts(data))
    \o (IF Len(ColsOf(data, "num")) > 0 THEN Built(data, CorrelationChart) ELSE <<>>)
    \o EachBuilt(data, BarCharts(data))

CreateTabularVisualizations(data) ==
    LET numeric_cols == ColsOf(data, "num")
    IN  EachBuilt(data, HistogramCharts(data))
        \o (IF Len(numeric_cols) > 1 THEN Built(data, CorrelationChart) ELSE <<>>)
        \o EachBuilt(data, BarCharts(data))

\* create_visualizations
CreateVisualizations(data, file_type) ==
    IF file_type = "tif" THEN CreateTifVisualizations(data)
    ELSE CreateTabularVisualizations(data)

(***************************************************************************)
(* File names are sequences of tokens: "." and "_" are tokens of their     *)
(* own, every other token is a run of characters holding neither.          *)
(***************************************************************************)
\* str.lower, on the tokens used
Lower(t) == CASE t = "CSV" -> "csv" [] t = "TIF" -> "tif" [] OTHER -> t

\* Path.suffix.lower(): what follows the last dot, when a dot follows a stem
\* and something follows the dot; "" when there is no suffix
Suffix(name) ==
    LET dots == {i \in 1..Len(name) : name[i] = "."}
        last == CHOOSE i \in dots : \A j \in dots : j <= i
    IN  IF dots = {} THEN ""
        ELSE IF last = 1 \/ last # Len(name) - 1 THEN ""
        ELSE Lower(name[Len(name)])

\* supported_extensions[ext], "" when the key is missing or maps to None
SupportedType(ext, caps) ==
    CASE ext = "csv" -> "csv"
      [] ext \in {"xlsx", "xls"} -> IF caps.excel THEN "excel" ELSE ""
      [] ext \in {"tif", "tiff"} -> IF caps.tif THEN "tif" ELSE ""
      [] ext = "json" -> "json"
      [] ext = "parquet" -> IF caps.parquet THEN "parquet" ELSE ""
      [] ext = "pkl" -> "pickle"
      [] ext = "h5" -> "hdf5"
      [] OTHER -> ""

\* d[key] = value on an insertion-ordered dict kept as a sequence of entries
DictPut(d, key, entry) ==
    IF \E i \in 1..Len(d) : d[i].file_name = key
    THEN [i \in 1..Len(d) |-> IF d[i].file_name = key THEN entry ELSE d[i]]
    ELSE Append(d, entry)

\* discover_data_files over the directory listing, in glob order
RECURSIVE DiscoverDataFiles(_, _)
DiscoverDataFiles(listing, caps) ==
    IF listing = <<>> THEN <<>>
    ELSE LET file == listing[Len(listing)]
             file_type == SupportedType(Suffix(file.name), caps)
             earlier == DiscoverDataFiles(SubSeq(listing, 1, Len(listing) - 1), caps)
         IN  IF file_type # ""
             THEN DictPut(earlier, file.name,
                          [file_name |-> file.name, type |-> file_type,
                           size |-> file.size, content |-> file.content])
             ELSE earlier

(***************************************************************************)
(* generate_dashboard.  The written document is kept as its parts: the     *)
(* four overview figures, the navigation links and the per-file sections.  *)
(***************************************************************************)
\* file_name.replace(".", "_")
SectionId(file_name) ==
    [i \in 1..Len(file_name) |-> IF file_name[i] = "." THEN "_" ELSE file_name[i]]

RECURSIVE SumSizes(_)
SumSizes(files) == IF files = <<>> THEN 0 ELSE Head(files).size + SumSizes(Tail(files))

\* f"{bytes / 1024 / 1024:.1f}": tenths of a MiB, rounded to nearest
MegabytesTenths(bytes) == (20 * bytes + 1024 * 1024) \div (2 * 1024 * 1024)

\* _create_summary_html: one tile per summary key; ints print with
\* thousands separators, everything else here through str()
CreateSummaryHtml(analysis) ==
    IF analysis.file_type = "tif"
    THEN <<[label |-> "Dimensions", fmt |-> "str", value |-> analysis.summary.dimensions],
           [label |-> "Valid Pixels", fmt |-> "int", value |-> analysis.summary.valid_pixels],
           [label |-> "Total Pixels", fmt |-> "int", value |-> analysis.summary.total_pixels]>>
    ELSE <<[label |-> "Shape", fmt |-> "str", value |-> analysis.summary.shape],
           [label |-> "Columns", fmt |-> "str", value |-> analysis.summary.columns],
           [label |-> "Missing Values", fmt |-> "str", value |-> analysis.summary.missing_values],
           [label |-> "Duplicates", fmt |-> "str", value |-> analysis.summary.duplicates]>>

\* all_viz_html collected from the first record only
AllVizHtmlFirstRecord(results) ==
    IF results = <<>> THEN <<>>
    ELSE [i \in 1..Len(Head(results).visualizations) |->
             [file_name |-> Head(results).file_name,
              title |-> Head(results).visualizations[i].title]]

\* all_viz_html: one entry per visualization of every record, in order
RECURSIVE AllVizHtml(_)
AllVizHtml(results) ==
    IF results = <<>> THEN <<>>
    ELSE [i \in 1..Len(Head(results).visualizations) |->
             [file_name |-> Head(results).file_name,
              title |-> Head(results).visualizations[i].title]]
         \o AllVizHtml(Tail(results))

\* nav_links built newest record first
NavLinksNewestFirst(results) ==
    [i \in 1..Len(results) |->
        [href |-> SectionId(results[Len(results) + 1 - i].file_name),
         text |-> results[Len(results) + 1 - i].file_name]]

NavLinks(results) ==
    [i \in 1..Len(results) |->
        [href |-> SectionId(results[i].file_name), text |-> results[i].file_name]]

\* pio.to_html(fig, include_plotlyjs=False, full_html=False): a div whose
\* id attribute, none being passed, is a fresh uuid4.  The ids of one call
\* of generate_dashboard are the stream `uuids`; the chart at place j of
\* section i gets the id <<uuids, i, j>> of it.
PioToHtml(viz, uuid) == [title |-> viz.title, div_id |-> uuid]

DashboardSections(results, uuids) ==
    [i \in 1..Len(results) |->
        [id |-> SectionId(results[i].file_name),
         heading |-> results[i].file_name,
         summary_html |-> CreateSummaryHtml(results[i]),
         charts |-> [j \in 1..Len(results[i].visualizations) |->
                        PioToHtml(results[i].visualizations[j], <<uuids, i, j>>)],
         no_viz |-> results[i].visualizations = <<>>]]

FilesAnalyzed(files, results) == Len(files)

GenerateDashboard(files, results, uuids) ==
    [files_analyzed |-> FilesAnalyzed(files, results),
     file_types |-> Cardinality({files[i].type : i \in 1..Len(files)}),
     total_size |-> MegabytesTenths(SumSizes(files)),
     visualizations |-> Len(AllVizHtml(results)),
     nav_links |-> NavLinks(results),
     sections |-> DashboardSections(results, uuids)]

(***************************************************************************)
(* Inputs: the directories the pipeline is run on.                         *)
(***************************************************************************)
MaxFiles == 3
MaxUuids == 2
MaxCells == 4
BulkRows == 8
BulkCols == 13

Array(rows, w) == [h |-> Len(rows), w |-> w, rows |-> rows]

Col(name, dtype) == [name |-> name, dtype |-> dtype]

Table(cols, nrows, missing, dups, unhashable) ==
    [kind |-> "table", cols |-> cols, nrows |-> nrows, missing |-> missing,
     dups |-> dups, unhashable |-> unhashable, faults |-> {}]

Raster(band, nodata) ==
    [kind |-> "raster", band |-> band, nodata |-> nodata, faults |-> {}]

\* the same content, with the charts of these titles failing to build
Faulty(content, faults) == [content EXCEPT !.faults = faults]

Corrupt == [kind |-> "corrupt"]

\* {age: [25, 30, 25], city: ["A", "B", "A"]}
TableAgeCity == Table(<<Col("age", "num"), Col("city", "obj")>>, 3, 0, 1, FALSE)

\* records whose "tags" values are lists
TableNested == Table(<<Col("id", "num"), Col("tags", "obj")>>, 2, 0, 0, TRUE)

TableWide ==
    Table(<<Col("n1", "num"), Col("s1", "obj"), Col("n2", "num"), Col("flag", "other"),
            Col("n3", "num"), Col("s2", "obj"), Col("n4", "num"), Col("s3", "obj")>>,
          5, 2, 0, FALSE)

TableEmpty == Table(<<>>, 0, 0, 0, FALSE)

\* the 4 x 4 raster 1..16 whose cell (2, 4) holds the declared -9999
Raster4x4 ==
    Raster(Array([r \in 1..4 |-> [c \in 1..4 |->
                    IF r = 2 /\ c = 4 THEN Num(-9999) ELSE Num(4 * (r - 1) + c)]], 4),
           Num(-9999))

RasterPlain ==
    Raster(Array(<<<<Num(1), Num(2), Num(3)>>, <<Num(4), NaN, Num(6)>>>>, 3), None)

File(name, size, content) == [name |-> name, size |-> size, content |-> content]

FileCatalog ==
    {File(<<"a", ".", "csv">>, 2048, TableAgeCity),
     File(<<"b", ".", "json">>, 700000, TableNested),
     File(<<"c", ".", "TIF">>, 1500000, Raster4x4),
     File(<<"d", ".", "tif">>, 4096, RasterPlain),
     File(<<"e", ".", "csv">>, 10, Corrupt),
     File(<<"f", ".", "tiff">>, 10, Corrupt),
     File(<<"notes", ".", "txt">>, 300, Corrupt),
     File(<<"g", ".", "csv">>, 90000, TableWide),
     File(<<"h", ".", "csv">>, 1, TableEmpty)}

\* directory listings: up to MaxFiles catalog files, no name twice
Listings ==
    UNION {{l \in [1..n -> FileCatalog] :
               \A i, j \in 1..n : i # j => l[i].name # l[j].name} : n \in 0..MaxFiles}

Capabilities ==
    {[tif |-> b, excel |-> b, parquet |-> b] : b \in BOOLEAN}

(***************************************************************************)
(* The run: main calling run_full_analysis on a fresh analyzer.            *)
(***************************************************************************)
VARIABLES folder, caps, data_files, analysis_results, pc, idx, data,
          dashboard, returned, outcome

vars == <<folder, caps, data_files, analysis_results, pc, idx, data,
          dashboard, returned, outcome>>

Start(listings, capabilities) ==
    /\ folder \in listings
    /\ caps \in capabilities
    /\ data_files = <<>>
    /\ analysis_results = <<>>
    /\ pc = "start"
    /\ idx = 0
    /\ data = NoData
    /\ dashboard = <<>>
    /\ returned = "pending"
    /\ outcome = "running"

Init == Start(Listings, Capabilities)

(***************************************************************************)
(* Raster inputs: a directory holding one raster file, over every band of  *)
(* at most MaxCells cells (zero-size shapes included) filled from          *)
(* CellValues, and over the bulk bands: BulkRows x BulkCols cells holding  *)
(* 0..100 in turn, with up to two cells overwritten by an outlier; and     *)
(* over the one-row bands of two cells at and beyond the +-1e10 limits.    *)
(***************************************************************************)
CellValues == {Num(1), Num(2), Num(-9999), NaN, PInf}

DeclaredValues == {None, Num(-9999), NaN}

Shapes == {<<h, w>> \in (0..MaxCells) \X (0..MaxCells) : h * w <= MaxCells}

SmallBands ==
    UNION {{Array(rows, shape[2]) : rows \in [1..shape[1] -> [1..shape[2] -> CellValues]]} :
              shape \in Shapes}

Outliers == {E9(-1), E10(-3), Num(-9999), NInf}

BulkCell(r, c) == Num(((r - 1) * BulkCols + (c - 1)) % 101)

\* the bulk band with the cells at flat positions `at` overwritten by v
BulkBand(at, v) ==
    Array([r \in 1..BulkRows |-> [c \in 1..BulkCols |->
              IF ((r - 1) * BulkCols + c) \in at THEN v ELSE BulkCell(r, c)]], BulkCols)

BulkBands ==
    {BulkBand({}, Num(0))}
    \cup {BulkBand(at, v) : at \in {{1}, {BulkRows * BulkCols}, {2, 7}}, v \in Outliers}

ExtremeValues == {E10(-3), E10(-1), E10(1), NInf, Num(1)}

ExtremeBands == {Array(<<<<x, y>>>>, 2) : x \in ExtremeValues, y \in ExtremeValues}

RasterListings ==
    {<<File(<<"r", ".", "tif">>, 4096, Raster(band, declared))>> :
        band \in SmallBands \cup BulkBands \cup ExtremeBands, declared \in DeclaredValues}
    \cup {<<File(<<"r", ".", "tif">>, 1500000, Raster4x4)>>,
          <<File(<<"r", ".", "tif">>, 10, Corrupt)>>}

InitRaster == Start(RasterListings, {[tif |-> TRUE, excel |-> TRUE, parquet |-> TRUE]})

(***************************************************************************)
(* Chart inputs: a directory holding one file, over every table of at most *)
(* MaxCols columns of the three column kinds, the wide table and a few     *)
(* rasters, each with at most MaxFaults of its charts failing to build.    *)
(***************************************************************************)
MaxCols == 4
MaxFaults == 1

ColNames == <<"c1", "c2", "c3", "c4", "c5", "c6", "c7", "c8">>

ColKinds == {"num", "obj", "other"}

Tables ==
    {Table([i \in 1..Len(kinds) |-> Col(ColNames[i], kinds[i])], 3, 0, 0, FALSE) :
        kinds \in UNION {[1..n -> ColKinds] : n \in 0..MaxCols}}
    \cup {TableWide, TableAgeCity}

ChartRasters ==
    {Raster(Array(<<row>>, Len(row)), Num(-9999)) :
        row \in {<<Num(1), Num(2)>>, <<Num(-9999), Num(1)>>, <<Num(-9999)>>,
                 <<Num(1), Num(2), Num(-9999), Num(1), Num(2)>>}}

\* the titles of the charts drawn for the content when none of them fails
Titles(content, file_type) ==
    {chart.title : chart \in Range(CreateVisualizations(ReadDataFile(content, file_type),
                                                        file_type))}

WithFaults(content, file_type) ==
    {Faulty(content, faults) :
        faults \in {F \in SUBSET Titles(content, file_type) : Cardinality(F) <= MaxFaults}}

ChartListings ==
    {<<File(<<"t", ".", "csv">>, 2048, content)>> :
        content \in UNION {WithFaults(table, "csv") : table \in Tables}}
    \cup {<<File(<<"r", ".", "tif">>, 4096, content)>> :
              content \in UNION {WithFaults(raster, "tif") : raster \in ChartRasters}}

InitCharts == Start(ChartListings, {[tif |-> TRUE, excel |-> TRUE, parquet |-> TRUE]})

(***************************************************************************)
(* Name inputs: directories of up to MaxFiles tables whose names hold "."  *)
(* and "_" in their stems.                                                 *)
(***************************************************************************)
NameCatalog ==
    {File(name, 2048, TableAgeCity) :
        name \in {<<"a", ".", "csv">>,
                  <<"a", ".", "b", ".", "csv">>,
                  <<"a", "_", "b", ".", "csv">>,
                  <<"a", "_", "b", "_", "c", ".", "csv">>,
                  <<"a", ".", "b", "_", "c", ".", "csv">>,
                  <<"a", "_", "csv", ".", "csv">>}}

NameListings ==
    UNION {{l \in [1..n -> NameCatalog] :
               \A i, j \in 1..n : i # j => l[i].name # l[j].name} : n \in 0..MaxFiles}

InitNames == Start(NameListings, {[tif |-> TRUE, excel |-> TRUE, parquet |-> TRUE]})

\* generate_dashboard called at the end of the loop body
NextFileRenderInLoop == "render"

\* the loop's next position: the next file, or the dashboard after the last
NextFile == IF idx < Len(data_files) THEN "read" ELSE "render"

\* discovery without the `if not self.data_files` return
DiscoverNoEarlyReturn ==
    /\ pc = "start"
    /\ data_files' = DiscoverDataFiles(folder, caps)
    /\ pc' = IF data_files' = <<>> THEN "render" ELSE "read"
    /\ idx' = 1
    /\ UNCHANGED <<folder, caps, analysis_results, data, dashboard, returned, outcome>>

\* step 1 of run_full_analysis: discovery and the no-files return
Discover ==
    /\ pc = "start"
    /\ data_files' = DiscoverDataFiles(folder, caps)
    /\ IF data_files' = <<>>
       THEN /\ pc' = "returned"
            /\ returned' = "None"
            /\ idx' = idx
       ELSE /\ pc' = "read"
            /\ returned' = returned
            /\ idx' = 1
    /\ UNCHANGED <<folder, caps, analysis_results, data, dashboard, outcome>>

\* read_data_file for the current file, and the `continue` on None
Read ==
    /\ pc = "read"
    /\ data' = ReadDataFile(data_files[idx].content, data_files[idx].type)
    /\ IF data' = NoData
       THEN /\ pc' = NextFile
            /\ idx' = idx + 1
       ELSE /\ pc' = "analyze"
            /\ idx' = idx
    /\ UNCHANGED <<folder, caps, data_files, analysis_results, dashboard, returned, outcome>>

\* analyze_data; an exception leaves run_full_analysis
Analyze ==
    /\ pc = "analyze"
    /\ IF AnalyzeRaises(data, data_files[idx].type)
       THEN /\ pc' = "raised"
            /\ analysis_results' = analysis_results
       ELSE /\ pc' = "visualize"
            /\ analysis_results' =
                   DictPut(analysis_results, data_files[idx].file_name,
                           AnalyzeData(data, data_files[idx].file_name, data_files[idx].type))
    /\ UNCHANGED <<folder, caps, data_files, idx, data, dashboard, returned, outcome>>

\* the list attached to every record so far, not only the current one
VisualizeEveryRecord ==
    /\ pc = "visualize"
    /\ analysis_results' =
           [i \in 1..Len(analysis_results) |->
               [analysis_results[i] EXCEPT
                   !.visualizations = CreateVisualizations(data, data_files[idx].type)]]
    /\ pc' = NextFile
    /\ idx' = idx + 1
    /\ UNCHANGED <<folder, caps, data_files, data, dashboard, returned, outcome>>

\* create_visualizations and analysis['visualizations'] = visualizations
Visualize ==
    /\ pc = "visualize"
    /\ analysis_results' =
           [i \in 1..Len(analysis_results) |->
               IF analysis_results[i].file_name = data_files[idx].file_name
               THEN [analysis_results[i] EXCEPT
                        !.visualizations = CreateVisualizations(data, data_files[idx].type)]
               ELSE analysis_results[i]]
    /\ pc' = NextFile
    /\ idx' = idx + 1
    /\ UNCHANGED <<folder, caps, data_files, data, dashboard, returned, outcome>>

\* the uuid4 streams one call of generate_dashboard may draw
UuidStreams == 1..MaxUuids

\* step 3: generate_dashboard writes the document, its path is returned
Render ==
    /\ pc = "render"
    /\ \E uuids \in UuidStreams :
           dashboard' = <<GenerateDashboard(data_files, analysis_results, uuids)>>
    /\ returned' = "universal_dashboard.html"
    /\ pc' = "returned"
    /\ UNCHANGED <<folder, caps, data_files, analysis_results, idx, data, outcome>>

\* main: the message after the call, or the except clause
Finish ==
    /\ pc \in {"returned", "raised"}
    /\ outcome' = IF pc = "raised" THEN "unexpected error"
                  ELSE IF returned = "None" THEN "analysis failed" ELSE "open dashboard"
    /\ pc' = "exit"
    /\ UNCHANGED <<folder, caps, data_files, analysis_results, idx, data, dashboard, returned>>

Next == Discover \/ Read \/ Analyze \/ Visualize \/ Render \/ Finish

Spec == Init /\ [][Next]_vars

SpecRaster == InitRaster /\ [][Next]_vars

SpecCharts == InitCharts /\ [][Next]_vars

SpecNames == InitNames /\ [][Next]_vars

\* generate_dashboard called once more on the same analyzer after the run:
\* the document is written over the first one
RenderAgain ==
    /\ pc = "exit"
    /\ dashboard # <<>>
    /\ \E uuids \in UuidStreams :
           dashboard' = <<GenerateDashboard(data_files, analysis_results, uuids)>>
    /\ pc' = "rendered again"
    /\ UNCHANGED <<folder, caps, data_files, analysis_results, idx, data, returned, outcome>>

NextRepeat == Next \/ RenderAgain

SpecRepeat == Init /\ [][NextRepeat]_vars

(***************************************************************************)
(* Properties of the run (specification Spec)                              *)
(***************************************************************************)
RecordOf(name) ==
    CHOOSE i \in 1..Len(analysis_results) : analysis_results[i].file_name = name

HasRecord(name) ==
    \E i \in 1..Len(analysis_results) : analysis_results[i].file_name = name

HasSection(name) ==
    /\ dashboard # <<>>
    /\ \E i \in 1..Len(dashboard[1].sections) : dashboard[1].sections[i].heading = name

\* read_data_file gives None for the discovered file f
DecodeFails(f) == ReadDataFile(f.content, f.type) = NoData

\* f can be read and its analysis does not raise
Processable(f) ==
    /\ ~DecodeFails(f)
    /\ ~AnalyzeRaises(ReadDataFile(f.content, f.type), f.type)

RECURSIVE SumOfVisualizations(_)
SumOfVisualizations(results) ==
    IF results = <<>> THEN 0
    ELSE Len(Head(results).visualizations) + SumOfVisualizations(Tail(results))

RECURSIVE SumOfCharts(_)
SumOfCharts(sections) ==
    IF sections = <<>> THEN 0
    ELSE Len(Head(sections).charts) + SumOfCharts(Tail(sections))

PositionInFolder(name) == CHOOSE k \in 1..Len(folder) : folder[k].name = name

\* C1: in every written report, the 'Files Analyzed' figure equals the
\* number of per-file sections (analysis records) the report holds.
C1_FilesAnalyzedIsRecordCount ==
    dashboard # <<>> =>
        /\ dashboard[1].files_analyzed = Len(dashboard[1].sections)
        /\ dashboard[1].files_analyzed = Len(analysis_results)

\* C2: the report's total visualization count equals the sum, over all
\* analysis records, of the length of the record's visualization list (and
\* so the number of charts its sections show).
C2_VisualizationTotalIsSum ==
    dashboard # <<>> =>
        /\ dashboard[1].visualizations = SumOfVisualizations(analysis_results)
        /\ dashboard[1].visualizations = SumOfCharts(dashboard[1].sections)

C2_Witness ==
    /\ dashboard # <<>>
    /\ \E i, j \in 1..Len(analysis_results) :
          /\ Len(analysis_results[i].visualizations) > Len(analysis_results[j].visualizations)
          /\ Len(analysis_results[j].visualizations) > 0

\* C3: the report's sections follow the order in which the records were
\* inserted, which is the order of discovery, and the navigation links are
\* the sections' names and anchors in that same order, one per section.
C3_SectionsAndLinksInDiscoveryOrder ==
    dashboard # <<>> =>
        LET d == dashboard[1]
        IN  /\ Len(d.sections) = Len(analysis_results)
            /\ \A i \in 1..Len(d.sections) :
                  d.sections[i].heading = analysis_results[i].file_name
            /\ \A i, j \in 1..Len(d.sections) :
                  i < j => PositionInFolder(d.sections[i].heading)
                               < PositionInFolder(d.sections[j].heading)
            /\ Len(d.nav_links) = Len(d.sections)
            /\ \A i \in 1..Len(d.sections) :
                  /\ d.nav_links[i].text = d.sections[i].heading
                  /\ d.nav_links[i].href = d.sections[i].id

C3_Witness ==
    /\ dashboard # <<>>
    /\ Len(dashboard[1].sections) >= 2
    /\ Len(folder) > Len(dashboard[1].sections)
    /\ ~HasSection(folder[1].name)

\* C4: when the decoding of a discovered file fails, that file gets no
\* record, and the run still ends with a report in which every other file
\* that can be read and analysed has its record, with its charts attached,
\* and its section.
C4_DecodeFailureSkipsOnlyThatFile ==
    (pc = "exit" /\ \E i \in 1..Len(data_files) : DecodeFails(data_files[i])) =>
        /\ dashboard # <<>>
        /\ \A i \in 1..Len(data_files) :
              /\ DecodeFails(data_files[i]) => ~HasRecord(data_files[i].file_name)
              /\ Processable(data_files[i]) =>
                    /\ HasRecord(data_files[i].file_name)
                    /\ HasSection(data_files[i].file_name)

\* C5: whatever file fails at whatever step, every other discovered file
\* that can be processed ends with its own complete record and its section
\* in the final report.
C5_FailureIsContained ==
    pc = "exit" =>
        \A i \in 1..Len(data_files) :
            Processable(data_files[i]) =>
                /\ HasRecord(data_files[i].file_name)
                /\ analysis_results[RecordOf(data_files[i].file_name)].visualizations
                       = CreateVisualizations(
                             ReadDataFile(data_files[i].content, data_files[i].type),
                             data_files[i].type)
                /\ HasSection(data_files[i].file_name)

\* C6: when discovery finds no supported file, nothing is read, analysed or
\* rendered: no record exists, no report is written, and None is returned
\* to main, which reports the failure.
C6_NoInputFilesStopsTheRun ==
    (pc # "start" /\ data_files = <<>>) =>
        /\ analysis_results = <<>>
        /\ data = NoData
        /\ dashboard = <<>>
        /\ returned = "None"
        /\ pc \in {"returned", "exit"}
        /\ pc = "exit" => outcome = "analysis failed"

C6_Witness ==
    /\ pc = "exit"
    /\ data_files = <<>>
    /\ folder # <<>>

(***************************************************************************)
(* Properties of the raster path (specification SpecRaster).  While pc is  *)
(* "analyze", "visualize" or "raised", data is what was read from the      *)
(* file data_files[idx].                                                   *)
(***************************************************************************)
RasterInHand ==
    /\ pc \in {"analyze", "visualize", "raised"}
    /\ data.kind = "raster"

Declared == data_files[idx].content.nodata

Cells == Flatten(data.data)

\* x <= y
Le(x, y) == Lt(x, y) \/ Eq(x, y)

\* the k-th smallest (k = 1 the minimum) of a sequence of finite values
KthSmallest(s, k) ==
    CHOOSE x \in Range(s) :
        /\ Count(s, LAMBDA y : Lt(y, x)) < k
        /\ k <= Count(s, LAMBDA y : Le(y, x))

\* the p-th percentile by linear interpolation between order statistics
Quantile(s, p) ==
    LET n == Len(s)
        i == ((n - 1) * p) \div 100
        f == ((n - 1) * p) % 100
        a == KthSmallest(s, i + 1)
        b == KthSmallest(s, IF i + 2 <= n THEN i + 2 ELSE n)
        d == Sub(b, a)
    IN  Norm(a.hi + (d.hi * f) \div 100,
             a.lo + ((d.hi * f) % 100) * (Unit \div 100) + (d.lo * f) \div 100)

\* the outcome the detector's contract prescribes for the band in hand
PrescribedSentinel ==
    IF Declared # None THEN Declared
    ELSE LET finite == Select(Cells, IsFinite)
         IN  IF finite = <<>> THEN None
             ELSE LET q1 == Quantile(finite, 1)
                      q99 == Quantile(finite, 99)
                      range == Sub(q99, q1)
                  IN  IF Lt(KthSmallest(finite, 1), Sub(q1, Times(100, range)))
                      THEN Sub(q1, Times(10, range))
                      ELSE None

\* C7: the detector returns the declared sentinel unchanged when there is
\* one; otherwise q1 - 10*(q99 - q1) exactly when a finite value exists and
\* the least finite value is below q1 - 100*(q99 - q1), and no sentinel in
\* every other case (empty, all-identical and all-nonfinite bands, and the
\* band of 0..100 without outlier, included).
C7_DetectorContract ==
    RasterInHand =>
        /\ data.metadata.nodata = PrescribedSentinel
        /\ (Declared = None /\ (Cells = <<>> \/ \A i \in 1..Len(Cells) : ~IsFinite(Cells[i])))
              => data.metadata.nodata = None
        /\ (Declared = None /\ Cells # <<>> /\ \A i \in 1..Len(Cells) : Cells[i] = Cells[1])
              => data.metadata.nodata = None
        /\ (Declared = None /\ data.data = BulkBand({}, Num(0)))
              => data.metadata.nodata = None

C7_Witness ==
    /\ RasterInHand
    /\ Declared = None
    /\ data.metadata.nodata # None
    /\ Lt(E9(-1), data.metadata.nodata)
    /\ Lt(data.metadata.nodata, Num(0))

\* C8: when the threshold is inferred, every cell at or below it is left out
\* by the analyser's valid-cell filter and by the charts' filters; for the
\* band of 0..100 with one cell set to -1e9, the analyser's filter leaves
\* out exactly that cell.
C8_AtOrBelowThresholdIsInvalid ==
    (RasterInHand /\ pc = "visualize" /\ Declared = None /\ data.metadata.nodata # None) =>
        LET t == data.metadata.nodata
            record == analysis_results[RecordOf(data_files[idx].file_name)]
        IN  /\ \A i \in 1..Len(Cells) :
                  Le(Cells[i], t) =>
                      /\ ~AnalyzerMask(Cells[i], t)
                      /\ ~HeatmapMask(Cells[i], t)
                      /\ ~StatsMask(Cells[i], t)
            /\ record.summary.valid_pixels
                   = Count(Cells, LAMBDA x : ~Le(x, t))
            /\ data.data = BulkBand({1}, E9(-1)) =>
                  /\ record.summary.valid_pixels = Len(Cells) - 1
                  /\ record.numeric_summary.min = Num(0)

\* the number of cells that differ from the sentinel, all cells without one
CellsNotSentinel ==
    IF data.metadata.nodata # None
    THEN Count(Cells, LAMBDA x : Ne(x, data.metadata.nodata))
    ELSE Len(Cells)

\* C9: the analyser's valid pixel count is the number of cells that differ
\* from the effective sentinel (all cells without one), its total pixel
\* count is the grid size, and with a sentinel the insight's no-data count
\* is total minus valid; the 4 x 4 example gives 15 valid, min 1, max 16.
C9_PixelCounts ==
    (RasterInHand /\ pc = "visualize") =>
        LET record == analysis_results[RecordOf(data_files[idx].file_name)]
        IN  /\ record.summary.valid_pixels = CellsNotSentinel
            /\ record.summary.total_pixels = data.data.h * data.data.w
            /\ data.metadata.nodata # None =>
                  record.insights[1].n
                      = record.summary.total_pixels - record.summary.valid_pixels
            /\ data_files[idx].content = Raster4x4 =>
                  /\ record.summary.valid_pixels = 15
                  /\ record.numeric_summary.min = Num(1)
                  /\ record.numeric_summary.max = Num(16)

RasterVisualized ==
    /\ pc \in {"render", "returned", "exit"}
    /\ data.kind = "raster"
    /\ analysis_results # <<>>

\* the sentinel filter leaves x out: x is the declared sentinel, or at or
\* below the threshold when the sentinel was inferred
IsSentinel(x) ==
    /\ data.metadata.nodata # None
    /\ IF data_files[1].content.nodata = None
       THEN Le(x, data.metadata.nodata)
       ELSE Eq(x, data.metadata.nodata)

\* x is none of: a sentinel, NaN, an infinity, a value at or beyond -1e10
\* or 1e10
ValidCell(x) ==
    /\ ~IsSentinel(x)
    /\ x \notin {NaN, PInf, NInf}
    /\ ~Le(x, E10(-1))
    /\ ~Le(E10(1), x)

ValidCells == Select(Cells, ValidCell)

C18_RasterChartsAllOrNone ==
    (RasterVisualized /\ data.faults = {}) =>
        LET viz == analysis_results[1].visualizations
        IN  IF ValidCells = <<>> THEN viz = <<>>
            ELSE [i \in 1..Len(viz) |-> viz[i].type]
                     = <<"heatmap", "statistics", "histogram">>

(***************************************************************************)
(* Properties of the charts of one file (specification SpecCharts)         *)
(***************************************************************************)
\* the only file of the directory has been analysed and visualised
FileVisualized ==
    /\ pc \in {"render", "returned", "exit"}
    /\ analysis_results # <<>>

\* the charts drawn for the data in hand when none of them fails to build
ChartsWithoutFaults == CreateVisualizations(Faulty(data, {}), data_files[1].type)

\* C12: the charts attached to a file are the charts that would be drawn
\* with no failure, in the same order, less exactly those whose own
\* construction fails: a failing histogram, correlation matrix, bar chart,
\* heatmap, statistics chart or raster histogram removes no other chart.
C12_ChartFailureSkipsOnlyThatChart ==
    FileVisualized =>
        analysis_results[1].visualizations
            = Select(ChartsWithoutFaults, LAMBDA chart : chart.title \notin data.faults)

C12_Witness ==
    /\ FileVisualized
    /\ data.kind = "table"
    /\ data.faults = {<<"Distribution of", "c1">>}
    /\ Len(ChartsWithoutFaults) = 4
    /\ Len(analysis_results[1].visualizations) = 3
    /\ analysis_results[1].visualizations[1].title = <<"Distribution of", "c2">>

\* the positions of the columns of a kind, and the i-th of them in
\* column order
PositionsOf(kind) == {p \in 1..Len(data.cols) : data.cols[p].dtype = kind}

NthOf(positions, i) ==
    CHOOSE p \in positions : Cardinality({q \in positions : q <= p}) = i

AtMost(n, cap) == IF n < cap THEN n ELSE cap

\* C13: for a table with n numeric and c categorical columns whose charts
\* all build, the list is min(n, 3) histograms of the first numeric columns
\* in column order, then one correlation matrix exactly when n >= 2, then
\* min(c, 2) bar charts of the first categorical columns.
C13_TabularChartsCountAndOrder ==
    (FileVisualized /\ data.kind = "table" /\ data.faults = {}) =>
        LET viz == analysis_results[1].visualizations
            n == Cardinality(PositionsOf("num"))
            c == Cardinality(PositionsOf("obj"))
            nh == AtMost(n, 3)
            nc == IF n >= 2 THEN 1 ELSE 0
            nb == AtMost(c, 2)
        IN  /\ Len(viz) = nh + nc + nb
            /\ \A i \in 1..nh :
                  /\ viz[i].type = "histogram"
                  /\ viz[i].title
                         = <<"Distribution of", data.cols[NthOf(PositionsOf("num"), i)].name>>
            /\ nc = 1 => viz[nh + 1].type = "correlation"
            /\ \A i \in 1..nb :
                  /\ viz[nh + nc + i].type = "bar"
                  /\ viz[nh + nc + i].title
                         = <<"Top Values in", data.cols[NthOf(PositionsOf("obj"), i)].name>>

C13_Witness ==
    /\ FileVisualized
    /\ data = TableWide
    /\ Len(analysis_results[1].visualizations) = 6
    /\ analysis_results[1].visualizations[3].title = <<"Distribution of", "n3">>
    /\ analysis_results[1].visualizations[6].title = <<"Top Values in", "s2">>

(***************************************************************************)
(* Properties of rendering (specification SpecRepeat)                      *)
(***************************************************************************)
\* C14: a call of generate_dashboard changes neither data_files nor any
\* analysis record, and a second call on the same records writes the
\* document the first call wrote.
C14_RenderingIsPureAndRepeatable ==
    [][/\ dashboard' # dashboard =>
              /\ data_files' = data_files
              /\ analysis_results' = analysis_results
       /\ pc' = "rendered again" => dashboard' = dashboard]_vars

(***************************************************************************)
(* Properties of the order of the steps (specification Spec)               *)
(***************************************************************************)
\* the position in data_files of the file the i-th record belongs to
FileOf(i) ==
    CHOOSE k \in 1..Len(data_files) : data_files[k].file_name = analysis_results[i].file_name

\* the loop has left the file of the i-th record: its charts are attached
Attached(i) == FileOf(i) < idx

\* C15: a record appears only as the result of analysing the file in hand,
\* with no chart; the only later change of it is the one attachment of its
\* chart list; once attached it is never changed, neither by the steps of
\* later files nor by rendering; and rendering sees attached records only.
C15_RecordAttachedOnceThenFrozen ==
    [][/\ Len(analysis_results') >= Len(analysis_results)
       /\ \A i \in 1..Len(analysis_results) :
             /\ Attached(i) => analysis_results'[i] = analysis_results[i]
             /\ ~Attached(i) =>
                   \/ analysis_results'[i] = analysis_results[i] /\ ~Attached(i)'
                   \/ /\ Attached(i)'
                      /\ analysis_results'[i] =
                             [analysis_results[i] EXCEPT
                                 !.visualizations =
                                     CreateVisualizations(data, analysis_results[i].file_type)]
       /\ Len(analysis_results') > Len(analysis_results) =>
             /\ pc = "analyze"
             /\ analysis_results' =
                    Append(analysis_results,
                           AnalyzeData(data, data_files[idx].file_name, data_files[idx].type))
             /\ analysis_results'[Len(analysis_results')].visualizations = <<>>
       /\ dashboard' # dashboard => \A i \in 1..Len(analysis_results) : Attached(i)]_vars

C15_Witness ==
    /\ pc = "visualize"
    /\ Len(analysis_results) = 2
    /\ Attached(1) /\ ~Attached(2)
    /\ analysis_results[1].visualizations # <<>>
    /\ CreateVisualizations(data, data_files[idx].type) # analysis_results[1].visualizations

\* the file at position k has been skipped, or analysed and visualised
Finished(k) ==
    IF HasRecord(data_files[k].file_name) THEN k < idx ELSE DecodeFails(data_files[k])

\* C16: discovery comes before any read; a file is read, then analysed,
\* then visualised; the loop moves to the next file only when the file in
\* hand is finished; the report is rendered only when every discovered
\* file is finished, and at most once.
C16_StepsRunInSequence ==
    [][/\ data_files' # data_files =>
              pc = "start" /\ data = NoData /\ analysis_results = <<>>
       /\ data' # data =>
              /\ pc = "read" /\ data_files' = data_files
              /\ data' = ReadDataFile(data_files[idx].content, data_files[idx].type)
       /\ Len(analysis_results') > Len(analysis_results) =>
              /\ pc = "analyze" /\ idx' = idx
              /\ data = ReadDataFile(data_files[idx].content, data_files[idx].type)
              /\ analysis_results'[Len(analysis_results')].file_name
                     = data_files[idx].file_name
       /\ (pc = "visualize" /\ pc' # pc) => HasRecord(data_files[idx].file_name)
       /\ (idx' # idx /\ pc # "start") =>
              /\ idx' = idx + 1
              /\ \A k \in 1..idx : Finished(k)'
       /\ dashboard' # dashboard =>
              /\ dashboard = <<>>
              /\ idx = Len(data_files) + 1
              /\ \A k \in 1..Len(data_files) : Finished(k)]_vars

C16_Witness ==
    /\ dashboard # <<>>
    /\ Len(data_files) = 3
    /\ Len(analysis_results) = 2
    /\ DecodeFails(data_files[2])

(***************************************************************************)
(* Properties of the anchors (specification SpecNames)                     *)
(***************************************************************************)
\* the sections of the report a navigation link points to
TargetsOf(link) ==
    {i \in 1..Len(dashboard[1].sections) : dashboard[1].sections[i].id = link.href}

\* C17: in every written report the section ids are pairwise distinct, and
\* every navigation link points to exactly one section.
C17_AnchorsAreDistinct ==
    dashboard # <<>> =>
        /\ \A i, j \in 1..Len(dashboard[1].sections) :
              i # j => dashboard[1].sections[i].id # dashboard[1].sections[j].id
        /\ \A k \in 1..Len(dashboard[1].nav_links) :
              Cardinality(TargetsOf(dashboard[1].nav_links[k])) = 1

====
